---- MODULE Spec2Model ----
(***************************************************************************)
(* A model of graph_weather/data/nnja_ai.py: the SensorDataset adapter     *)
(* (constructor, __len__, __getitem__) and collate_fn.                     *)
(*                                                                         *)
(* The nnja DataCatalog is an external library.  It is modelled as a       *)
(* read-only environment that answers every call: a catalog of one         *)
(* collection per instrument, each holding the descriptor variables and    *)
(* that instrument's channel variables, partitioned by time.  A selection  *)
(* keeps the requested variables the collection has, each once, in the     *)
(* order requested.                                                        *)
(***************************************************************************)
EXTENDS Integers, Sequences, FiniteSets, TLC

VARIABLES
    pc,                \* "new", "constructed" or "failed": the constructor's outcome
    args,              \* the constructor's arguments (self.dataset_name, self.time, ...)
    error,             \* the exception the constructor raised, "" when none
    calls,             \* the calls made on the catalog library, in order
    selection,         \* the variables handed to dataset.sel
    attrs,             \* the data attributes assigned on self so far
    dataframe,         \* self.dataframe: [columns, index]
    metadata_columns,  \* self.metadata_columns
    result,            \* what the last __len__, __getitem__ or collate_fn call returned
    first              \* the index and outcome of the first __getitem__ call

vars == <<pc, args, error, calls, selection, attrs, dataframe, metadata_columns,
          result, first>>

(***************************************************************************)
(* Bounds of the model.                                                    *)
(***************************************************************************)
MaxRows == 2       \* the largest time partition of a collection has MaxRows rows
MaxBatch == 2      \* collate_fn is given batches of 1..MaxBatch samples

(***************************************************************************)
(* Channel counts of the five branches of the constructor.                 *)
(***************************************************************************)
AMSUChannelCount == 15
ATMSChannelCount == 22
MHSChannelCount == 5
IASIChannelCount == 616
CrISChannelCount == 431

(***************************************************************************)
(* Formatting of the channel variable names.                               *)
(***************************************************************************)
RECURSIVE NumDigits(_)
NumDigits(i) == IF i < 10 THEN 1 ELSE 1 + NumDigits(i \div 10)

RECURSIVE Zeros(_)
Zeros(n) == IF n <= 0 THEN "" ELSE "0" \o Zeros(n - 1)

\* str(i).zfill(width) and f"{i:0<width>d}" for i >= 0: left-padded with
\* zeros to width, never truncated.
zfill(i, width) == Zeros(width - NumDigits(i)) \o ToString(i)

AMSUVariables == [i \in 1..AMSUChannelCount |-> "TMBR_000" \o zfill(i, 2)]
ATMSVariables == [i \in 1..ATMSChannelCount |-> "TMBR_000" \o zfill(i, 2)]
MHSVariables == [i \in 1..MHSChannelCount |-> "TMBR_000" \o zfill(i, 2)]
IASIVariables == [i \in 1..IASIChannelCount |-> "SCRA_" \o zfill(i, 5)]
CrISVariables == [i \in 1..CrISChannelCount |-> "SRAD01_" \o zfill(i, 5)]

SensorTypes == {"AMSU", "ATMS", "MHS", "IASI", "CrIS"}

\* The channel variables of the branch taken for sensor_type.
ChannelVariables(sensor_type) ==
    CASE sensor_type = "AMSU" -> AMSUVariables
      [] sensor_type = "ATMS" -> ATMSVariables
      [] sensor_type = "MHS" -> MHSVariables
      [] sensor_type = "IASI" -> IASIVariables
      [] sensor_type = "CrIS" -> CrISVariables
      [] OTHER -> <<>>

Range(s) == {s[k] : k \in DOMAIN s}

(***************************************************************************)
(* The catalog library, as the constructor calls it.                       *)
(***************************************************************************)
DescriptorVariables == <<"OBS_TIMESTAMP", "LAT", "LON", "SAID", "SAZA">>

DatasetNames == {"amsua", "atms", "mhs", "iasi", "cris"}

\* The variables of each collection of the catalog.
CollectionVariables ==
    [d \in DatasetNames |->
        Range(DescriptorVariables) \cup
        Range(CASE d = "amsua" -> AMSUVariables
                [] d = "atms" -> ATMSVariables
                [] d = "mhs" -> MHSVariables
                [] d = "iasi" -> IASIVariables
                [] d = "cris" -> CrISVariables)]

\* The time partitions of a collection: partition t holds t rows.
Times == 0..MaxRows
PartitionRows(time) == [k \in 1..time |-> 10 * time + k]

PositionIn(s) == [n \in Range(s) |-> CHOOSE i \in DOMAIN s : s[i] = n]

\* A number for each variable name, used to give every column its own data.
NameCode ==
    PositionIn(DescriptorVariables) @@ PositionIn(ATMSVariables) @@
    PositionIn(IASIVariables) @@ PositionIn(CrISVariables)

\* The stored value of variable name in row `row` of a collection.
\* OBS_TIMESTAMP is in epoch seconds, LAT and LON in whole degrees.
CatalogCell(row, name) ==
    CASE name = "OBS_TIMESTAMP" -> 1700000000 + 86400 * (row \div 10) + 7 * (row % 10)
      [] name = "LAT" -> ((37 * row) % 181) - 90
      [] name = "LON" -> ((53 * row) % 360) - 180
      [] OTHER -> 150 + ((3 * NameCode[name] + 11 * row) % 200)

\* DataCatalog(skip_manifest=True)[dataset_name], then load_manifest().
open_catalog == <<"DataCatalog", "__getitem__", "load_manifest">>

\* dataset.sel(time=..., variables=...): the requested variables the
\* collection has, each once, in the order requested.
sel(dataset_name, time, variables) ==
    LET kept(k) == /\ variables[k] \in CollectionVariables[dataset_name]
                   /\ \A j \in 1..(k - 1) : variables[j] # variables[k]
        idx == SelectSeq([k \in DOMAIN variables |-> k], kept)
    IN [time |-> time, variables |-> [i \in DOMAIN idx |-> variables[idx[i]]]]

\* dataset.load_dataset(engine="pandas"): the selected columns of the rows
\* of the selected time partition.
load_dataset(dataset) ==
    [columns |-> dataset.variables, index |-> PartitionRows(dataset.time)]

NoFrame == [columns |-> <<>>, index |-> <<>>]

(***************************************************************************)
(* SensorDataset.__init__                                                  *)
(***************************************************************************)
\* Mutant: the else branch falls back to the AMSU selection instead of raising.
SelectedVariables_DefaultAMSU(sensor_type, primary_descriptors) ==
    [supported |-> TRUE,
     variables |-> primary_descriptors \o
                   (IF sensor_type \in SensorTypes THEN ChannelVariables(sensor_type)
                    ELSE AMSUVariables)]

\* Lines 46-74: the variables selected for sensor_type, or no branch taken.
SelectedVariables(sensor_type, primary_descriptors) ==
    IF sensor_type \in SensorTypes
    THEN [supported |-> TRUE,
          variables |-> primary_descriptors \o ChannelVariables(sensor_type)]
    ELSE [supported |-> FALSE, variables |-> <<>>]

\* Mutant: only the first primary descriptor is checked.
MissingDescriptor_FirstOnly(primary_descriptors, columns) ==
    primary_descriptors # <<>> /\ primary_descriptors[1] \notin Range(columns)

\* Lines 78-80: some primary descriptor is not a column of the dataframe.
MissingDescriptor(primary_descriptors, columns) ==
    \E k \in DOMAIN primary_descriptors : primary_descriptors[k] \notin Range(columns)

\* Mutant: the primary descriptors are not taken out of the metadata columns.
MetadataColumns_KeepAll(columns, primary_descriptors) == columns

\* Lines 82-84.
MetadataColumns(columns, primary_descriptors) ==
    LET notPrimary(col) == col \notin Range(primary_descriptors)
    IN SelectSeq(columns, notPrimary)

ArgAttrs == {"dataset_name", "time", "primary_descriptors", "additional_variables",
             "sensor_type"}

\* repeat: the call was not the adapter's first __getitem__ call.
NoResult == [op |-> "none", index |-> <<>>, status |-> "", repeat |-> FALSE,
             length |-> 0, samples |-> <<>>, batch |-> <<>>]

init(dataset_name, time, primary_descriptors, additional_variables, sensor_type) ==
    LET chosen == SelectedVariables(sensor_type, primary_descriptors)
        frame == load_dataset(sel(dataset_name, time, chosen.variables))
    IN /\ pc = "new"
       /\ args' = [dataset_name |-> dataset_name, time |-> time,
                   primary_descriptors |-> primary_descriptors,
                   additional_variables |-> additional_variables,
                   sensor_type |-> sensor_type]
       /\ IF ~chosen.supported
          THEN /\ pc' = "failed"
               /\ error' = "ValueError: Unsupported sensor type"
               /\ calls' = open_catalog
               /\ attrs' = ArgAttrs \cup {"catalog", "dataset"}
               /\ UNCHANGED <<selection, dataframe, metadata_columns>>
          ELSE /\ calls' = open_catalog \o <<"sel", "load_dataset">>
               /\ selection' = chosen.variables
               /\ dataframe' = frame
               /\ IF MissingDescriptor(primary_descriptors, frame.columns)
                  THEN /\ pc' = "failed"
                       /\ error' = "ValueError: The dataset must include a column"
                       /\ attrs' = ArgAttrs \cup {"catalog", "dataset", "dataframe"}
                       /\ UNCHANGED metadata_columns
                  ELSE /\ pc' = "constructed"
                       /\ error' = ""
                       /\ attrs' = ArgAttrs \cup {"catalog", "dataset", "dataframe",
                                                  "metadata_columns"}
                       /\ metadata_columns' =
                              MetadataColumns(frame.columns, primary_descriptors)
       /\ UNCHANGED <<result, first>>

(***************************************************************************)
(* Conversion to 32-bit floats (dtype=np.float32, dtype=torch.float32) of  *)
(* an integer-valued number: exact below 2^24, above it rounded to the     *)
(* nearest multiple of the spacing of floats, ties to the even mantissa.   *)
(***************************************************************************)
RECURSIVE Spacing(_)
Spacing(a) == IF a < 16777216 THEN 1 ELSE 2 * Spacing(a \div 2)

ToFloat32(v) ==
    LET a == IF v < 0 THEN -v ELSE v
        q == Spacing(a)
        r == a % q
        lo == a - r
        up == lo + q
        near == IF 2 * r < q THEN lo
                ELSE IF 2 * r > q THEN up
                ELSE IF (lo \div q) % 2 = 0 THEN lo ELSE up
    IN IF a < 16777216 THEN v ELSE IF v < 0 THEN -near ELSE near

(***************************************************************************)
(* SensorDataset.__len__ and SensorDataset.__getitem__                     *)
(***************************************************************************)
\* Mutant: the number of columns instead of the number of rows.
len_Columns(frame) == Len(frame.columns)

\* len(self.dataframe): the number of rows.
len_(frame) == Len(frame.index)

\* Lines 92-103.  dataframe.iloc[index] counts a negative index from the
\* end and raises IndexError outside -n..n-1; row[col] raises KeyError for
\* a column the dataframe does not have.
getitem(frame, metadata_cols, index) ==
    LET n == Len(frame.index)
        row == frame.index[IF index < 0 THEN n + index + 1 ELSE index + 1]
        has(col) == \E k \in DOMAIN frame.columns : frame.columns[k] = col
        failed(status) == [status |-> status, samples |-> <<>>]
    IN IF index < -n \/ index >= n THEN failed("IndexError")
       ELSE IF ~has("OBS_TIMESTAMP") THEN failed("KeyError: OBS_TIMESTAMP")
       ELSE IF ~has("LAT") THEN failed("KeyError: LAT")
       ELSE IF ~has("LON") THEN failed("KeyError: LON")
       ELSE [status |-> "ok",
             samples |-> << [timestamp |-> ToFloat32(CatalogCell(row, "OBS_TIMESTAMP")),
                             latitude |-> ToFloat32(CatalogCell(row, "LAT")),
                             longitude |-> ToFloat32(CatalogCell(row, "LON")),
                             metadata |-> [k \in DOMAIN metadata_cols |->
                                 ToFloat32(CatalogCell(row, metadata_cols[k]))]] >>]

(***************************************************************************)
(* collate_fn                                                              *)
(***************************************************************************)
\* torch.stack of a list of equally shaped tensors: a new leading axis
\* along which position k is the k-th tensor of the list.
stack(tensors) == [k \in 1..Len(tensors) |-> tensors[k]]

\* Mutant: the batch is stacked in reverse order.
collate_fn_Reversed(batch) ==
    [key \in DOMAIN batch[1] |->
        stack([k \in DOMAIN batch |-> batch[Len(batch) + 1 - k][key]])]

\* Line 115: the keys are those of the first item.
collate_fn(batch) ==
    [key \in DOMAIN batch[1] |-> stack([k \in DOMAIN batch |-> batch[k][key]])]

(***************************************************************************)
(* The state machine                                                       *)
(***************************************************************************)
PrimaryInputs ==
    { <<"OBS_TIMESTAMP", "LAT", "LON">>,
      <<"LAT", "LON">>,
      <<"OBS_TIMESTAMP", "LAT", "LON", "SAID">>,
      <<"OBS_TIMESTAMP", "LAT", "LON", "TMBR_00001">>,
      <<"OBS_TIMESTAMP", "LAT", "LON", "QUALITY">> }

AdditionalInputs == { <<>>, <<"SAZA">> }

SensorInputs == SensorTypes \cup {"amsu", "CRIS"}

IndexInputs == (-1)..MaxRows

RECURSIVE SeqsUpTo(_, _)
SeqsUpTo(S, n) ==
    IF n = 0 THEN { <<>> }
    ELSE LET shorter == SeqsUpTo(S, n - 1)
         IN shorter \cup {Append(s, x) : s \in shorter, x \in S}

Init ==
    /\ pc = "new"
    /\ args = [dataset_name |-> "", time |-> 0, primary_descriptors |-> <<>>,
               additional_variables |-> <<>>, sensor_type |-> ""]
    /\ error = ""
    /\ calls = <<>>
    /\ selection = <<>>
    /\ attrs = {}
    /\ dataframe = NoFrame
    /\ metadata_columns = <<>>
    /\ result = NoResult
    /\ first = NoResult

\* SensorDataset(dataset_name, time, primary_descriptors, additional_variables, sensor_type)
Construct ==
    \E dataset_name \in DatasetNames, time \in Times,
       primary_descriptors \in PrimaryInputs,
       additional_variables \in AdditionalInputs, sensor_type \in SensorInputs :
        init(dataset_name, time, primary_descriptors, additional_variables, sensor_type)

\* len(adapter)
LenCall ==
    /\ pc = "constructed"
    /\ result' = [NoResult EXCEPT !.op = "len", !.status = "ok",
                                  !.length = len_(dataframe)]
    /\ UNCHANGED <<pc, args, error, calls, selection, attrs, dataframe,
                   metadata_columns, first>>

\* Mutant: each access consumes the last metadata column.
GetItem_Consuming(index) ==
    /\ pc = "constructed"
    /\ LET got == getitem(dataframe, metadata_columns, index)
       IN /\ result' = [NoResult EXCEPT !.op = "getitem", !.index = <<index>>,
                                        !.status = got.status, !.samples = got.samples,
                                        !.repeat = (first.op # "none")]
          /\ first' = IF first.op = "none" THEN result' ELSE first
    /\ metadata_columns' = SubSeq(metadata_columns, 1, Len(metadata_columns) - 1)
    /\ UNCHANGED <<pc, args, error, calls, selection, attrs, dataframe>>

\* Mutant: the collection is materialized again on each access.
GetItem_Reloading(index) ==
    /\ pc = "constructed"
    /\ Len(calls) < 8
    /\ LET got == getitem(dataframe, metadata_columns, index)
       IN /\ result' = [NoResult EXCEPT !.op = "getitem", !.index = <<index>>,
                                        !.status = got.status, !.samples = got.samples,
                                        !.repeat = (first.op # "none")]
          /\ first' = IF first.op = "none" THEN result' ELSE first
    /\ calls' = calls \o <<"load_dataset">>
    /\ UNCHANGED <<pc, args, error, selection, attrs, dataframe, metadata_columns>>

\* adapter[index]
GetItem(index) ==
    /\ pc = "constructed"
    /\ LET got == getitem(dataframe, metadata_columns, index)
           returned == [NoResult EXCEPT !.op = "getitem", !.index = <<index>>,
                                        !.status = got.status, !.samples = got.samples,
                                        !.repeat = (first.op # "none")]
       IN /\ result' = returned
          /\ first' = IF first.op = "none" THEN result' ELSE first
    /\ UNCHANGED <<pc, args, error, calls, selection, attrs, dataframe,
                   metadata_columns>>

\* The samples __getitem__ has returned that the caller still holds.
InHand == Range(first.samples) \cup Range(result.samples)

\* collate_fn(batch), for a list of samples the adapter returned.
\* batch[0] raises IndexError for the empty list.
Collate(batch) ==
    /\ pc = "constructed"
    /\ result' = IF batch = <<>>
                 THEN [NoResult EXCEPT !.op = "collate", !.status = "IndexError"]
                 ELSE [NoResult EXCEPT !.op = "collate", !.status = "ok",
                                       !.samples = batch, !.batch = collate_fn(batch)]
    /\ UNCHANGED <<pc, args, error, calls, selection, attrs, dataframe,
                   metadata_columns, first>>

Next ==
    \/ Construct
    \/ LenCall
    \/ \E index \in IndexInputs : GetItem(index)
    \/ \E batch \in SeqsUpTo(InHand, MaxBatch) : Collate(batch)

Spec == Init /\ [][Next]_vars

(***************************************************************************)
(* Properties                                                              *)
(***************************************************************************)
SampleFields == {"timestamp", "latitude", "longitude", "metadata"}

\* The metadata vector length the specification documents for a sensor type.
DocumentedCount(sensor_type) ==
    CASE sensor_type = "AMSU" -> 15
      [] sensor_type = "ATMS" -> 22
      [] sensor_type = "MHS" -> 5
      [] sensor_type = "IASI" -> 616
      [] sensor_type = "CrIS" -> 431

\* The last call was adapter[i] and returned a sample.
ReturnedSample == pc = "constructed" /\ result.op = "getitem" /\ result.status = "ok"

\* The row of the dataframe that index i addresses.
RowAt(frame, i) == frame.index[IF i < 0 THEN Len(frame.index) + i + 1 ELSE i + 1]

FullCallOrder == <<"DataCatalog", "__getitem__", "load_manifest", "sel", "load_dataset">>

C2_UnsupportedSensorFails ==
    (pc # "new" /\ args.sensor_type \notin {"AMSU", "ATMS", "MHS", "IASI", "CrIS"})
    => /\ pc = "failed"
       /\ error = "ValueError: Unsupported sensor type"
       /\ "sel" \notin Range(calls)
       /\ "load_dataset" \notin Range(calls)
       /\ "dataframe" \notin attrs
       /\ "metadata_columns" \notin attrs
       /\ dataframe = NoFrame
       /\ result.op = "none"
       /\ first.op = "none"

C2_Witness ==
    /\ pc = "failed"
    /\ args.sensor_type = "CRIS"
    /\ calls = <<"DataCatalog", "__getitem__", "load_manifest">>

\* C3: whenever the materialized collection lacks some column of
\* primary_descriptors, at whatever position of the list, the constructor
\* has ended in the ValueError for a missing column and no sample was ever
\* produced.
C3_MissingDescriptorFails ==
    (/\ "load_dataset" \in Range(calls)
     /\ \E k \in DOMAIN args.primary_descriptors :
            args.primary_descriptors[k] \notin Range(dataframe.columns))
    => /\ pc = "failed"
       /\ error = "ValueError: The dataset must include a column"
       /\ "metadata_columns" \notin attrs
       /\ result.op = "none"
       /\ first.op = "none"

C3_Witness ==
    /\ pc = "failed"
    /\ error = "ValueError: The dataset must include a column"
    /\ args.primary_descriptors = <<"OBS_TIMESTAMP", "LAT", "LON", "QUALITY">>
    /\ "LON" \in Range(dataframe.columns)

\* C4: after a successful construction, for whatever primary_descriptors,
\* adapter[i] at every i with 0 <= i < len(adapter) returns a sample with the
\* fields timestamp, latitude, longitude and metadata, and no error.
C4_ValidIndexReturnsSample ==
    (/\ pc = "constructed"
     /\ result.op = "getitem"
     /\ result.index[1] \in 0..(Len(dataframe.index) - 1))
    => /\ result.status = "ok"
       /\ Len(result.samples) = 1
       /\ DOMAIN result.samples[1] = SampleFields

\* C5: len(adapter) is the row count of the selected time partition as
\* materialized, after any sequence of len and indexed-access calls.
C5_LenIsRowCount ==
    (pc = "constructed" /\ result.op = "len")
    => /\ result.length = Len(dataframe.index)
       /\ result.length = Len(PartitionRows(args.time))

C5_Witness ==
    /\ pc = "constructed"
    /\ result.op = "len"
    /\ result.length = MaxRows
    /\ first.op = "getitem"
    /\ Len(dataframe.columns) # MaxRows

\* C6: the record collate_fn returns for a non-empty list of N samples has
\* exactly the samples' fields, and each field is a stack of leading
\* dimension N whose position k holds the k-th sample's value of the field.
C6_CollateStacksInOrder ==
    (result.op = "collate" /\ result.status = "ok")
    => /\ DOMAIN result.batch = SampleFields
       /\ \A k \in DOMAIN result.samples : DOMAIN result.samples[k] = SampleFields
       /\ \A key \in SampleFields :
            /\ Len(result.batch[key]) = Len(result.samples)
            /\ \A k \in DOMAIN result.samples :
                   result.batch[key][k] = result.samples[k][key]

C6_Witness ==
    /\ result.op = "collate"
    /\ result.status = "ok"
    /\ Len(result.samples) = 2
    /\ result.samples[1] # result.samples[2]
    /\ result.batch.metadata[1] # result.batch.metadata[2]

\* C7: no len, indexed-access or collate step changes the dataframe or the
\* metadata column list, and an indexed access at the index of the adapter's
\* first access returns what that first access returned.
C7_AccessIsDeterministic ==
    [][pc = "constructed" =>
        /\ dataframe' = dataframe
        /\ metadata_columns' = metadata_columns
        /\ (/\ first.op = "getitem"
            /\ result'.op = "getitem"
            /\ result'.index = first.index)
           => /\ result'.status = first.status
              /\ result'.samples = first.samples]_vars

C7_Witness ==
    /\ pc = "constructed"
    /\ result.op = "getitem"
    /\ result.repeat
    /\ result.status = "ok"
    /\ result.index = first.index
    /\ result.samples = first.samples
    /\ Len(result.samples[1].metadata) > 0

\* C8: the catalog is opened, the manifest loaded, the selection made and
\* the collection materialized, in that order and once each, by the time
\* the constructor returns, and no later call adds a catalog call.
C8_CatalogCallsOnceAtConstruction ==
    /\ pc = "new" => calls = <<>>
    /\ pc = "constructed" => calls = FullCallOrder

C8_Witness ==
    /\ pc = "constructed"
    /\ result.op = "getitem"
    /\ result.repeat
    /\ calls = FullCallOrder

\* C9: every variable named in additional_variables is among the variables
\* selected and among the metadata columns of the adapter.
C9_AdditionalVariablesInMetadata ==
    pc = "constructed" =>
        \A k \in DOMAIN args.additional_variables :
            /\ args.additional_variables[k] \in Range(selection)
            /\ args.additional_variables[k] \in Range(metadata_columns)

\* C10: in every sample, the metadata vector holds, in column order and once
\* each, the values of all columns of the dataframe other than the three
\* the timestamp, latitude and longitude are read from, whatever
\* primary_descriptors names.
C10_NoSelectedColumnLost ==
    ReturnedSample =>
        LET notRead(col) == col \notin {"OBS_TIMESTAMP", "LAT", "LON"}
            rest == SelectSeq(dataframe.columns, notRead)
            row == RowAt(dataframe, result.index[1])
            metadata == result.samples[1].metadata
        IN /\ Len(metadata) = Len(rest)
           /\ \A k \in DOMAIN rest : metadata[k] = ToFloat32(CatalogCell(row, rest[k]))

====
